---- MODULE Spec2Model ----
\* Model of src/agent_fun.py: the JSON action parser llm_json and the
\* agent loop of main (user turn, completion, dispatch, history).
EXTENDS Integers, Sequences, FiniteSets, TLC

\* ---------------------------------------------------------------------
\* Text.  A Python str is a sequence of atoms.  The structural characters
\* of JSON are atoms of their own; a run of other characters (a word, a
\* number literal) is one atom.  No word atom holds a structural character
\* and no two atoms join to spell another, so str.startswith, str.count,
\* `in` and indexing act on atoms as they act on characters.
\* ---------------------------------------------------------------------
Q  == "\""
LB == "{"
RB == "}"
LS == "["
RS == "]"
CO == ":"
CM == ","
SP == " "
BS == "\\"

NumAtoms == {"42", "1", "2"}

\* Python values (json.loads results, None, str) in one record shape:
\*   t    : "null" | "num" | "str" | "arr" | "obj" | "pair"
\*   s    : the atoms of a str or num, the key of a dict item
\*   kids : the elements of a list, the items of a dict, the value of an item
JNull == [t |-> "null", s |-> <<>>, kids |-> <<>>]
JNum(a) == [t |-> "num", s |-> <<a>>, kids |-> <<>>]
JStr(s) == [t |-> "str", s |-> s, kids |-> <<>>]
JArr(items) == [t |-> "arr", s |-> <<>>, kids |-> items]
JPair(k, v) == [t |-> "pair", s |-> k, kids |-> <<v>>]
JObj(items) == [t |-> "obj", s |-> <<>>, kids |-> items]

\* A parse step's outcome: ok, the value read, the next position.
PFail == [ok |-> FALSE, val |-> JNull, pos |-> 0]
POk(v, p) == [ok |-> TRUE, val |-> v, pos |-> p]

\* dict.__setitem__: an existing key keeps its place and takes the new value.
DictSet(items, k, v) ==
    IF \E j \in 1..Len(items) : items[j].s = k
    THEN [j \in 1..Len(items) |-> IF items[j].s = k THEN JPair(k, v) ELSE items[j]]
    ELSE Append(items, JPair(k, v))

\* dict.get(key, default)
DictGet(d, k, default) ==
    IF \E j \in 1..Len(d.kids) : d.kids[j].s = k
    THEN d.kids[CHOOSE j \in 1..Len(d.kids) : d.kids[j].s = k].kids[1]
    ELSE default

\* str.strip(): drop leading and trailing whitespace.
RECURSIVE LStrip(_)
LStrip(t) == IF t # <<>> /\ Head(t) = SP THEN LStrip(Tail(t)) ELSE t

RECURSIVE RStrip(_)
RStrip(t) ==
    IF t # <<>> /\ t[Len(t)] = SP THEN RStrip(SubSeq(t, 1, Len(t) - 1)) ELSE t

Strip(t) == RStrip(LStrip(t))

\* json decoder: skip whitespace from position i.
RECURSIVE SkipWs(_, _)
SkipWs(t, i) == IF i <= Len(t) /\ t[i] = SP THEN SkipWs(t, i + 1) ELSE i

\* ScanString with an escape copied undecoded, backslash and all.
RECURSIVE ScanStringKeepEscape(_, _, _)
ScanStringKeepEscape(t, i, acc) ==
    IF i > Len(t) THEN PFail
    ELSE IF t[i] = Q THEN POk(JStr(acc), i + 1)
    ELSE IF t[i] = BS
         THEN IF i + 1 <= Len(t) /\ t[i + 1] \in {Q, BS}
              THEN ScanStringKeepEscape(t, i + 2, acc \o <<t[i], t[i + 1]>>)
              ELSE PFail
    ELSE ScanStringKeepEscape(t, i + 1, Append(acc, t[i]))

\* json decoder: the body of a string, i just after the opening quote.
\* A backslash escapes a quote or a backslash; any other escape is invalid.
RECURSIVE ScanString(_, _, _)
ScanString(t, i, acc) ==
    IF i > Len(t) THEN PFail
    ELSE IF t[i] = Q THEN POk(JStr(acc), i + 1)
    ELSE IF t[i] = BS
         THEN IF i + 1 <= Len(t) /\ t[i + 1] \in {Q, BS}
              THEN ScanString(t, i + 2, Append(acc, t[i + 1]))
              ELSE PFail
    ELSE ScanString(t, i + 1, Append(acc, t[i]))

RECURSIVE ParseValue(_, _)
RECURSIVE ParseMembers(_, _, _)
RECURSIVE ParseElements(_, _, _)

\* json decoder: one value starting at or after position i.
ParseValue(t, i) ==
    LET j == SkipWs(t, i) IN
    IF j > Len(t) THEN PFail
    ELSE IF t[j] = Q THEN ScanString(t, j + 1, <<>>)
    ELSE IF t[j] = "null" THEN POk(JNull, j + 1)
    ELSE IF t[j] \in NumAtoms THEN POk(JNum(t[j]), j + 1)
    ELSE IF t[j] = LB
         THEN LET k == SkipWs(t, j + 1) IN
              IF k <= Len(t) /\ t[k] = RB THEN POk(JObj(<<>>), k + 1)
              ELSE ParseMembers(t, k, <<>>)
    ELSE IF t[j] = LS
         THEN LET k == SkipWs(t, j + 1) IN
              IF k <= Len(t) /\ t[k] = RS THEN POk(JArr(<<>>), k + 1)
              ELSE ParseElements(t, k, <<>>)
    ELSE PFail

\* json decoder: "key" : value { , "key" : value } "}", i at the key's quote.
ParseMembers(t, i, items) ==
    IF i > Len(t) \/ t[i] # Q THEN PFail
    ELSE LET key == ScanString(t, i + 1, <<>>) IN
         IF ~key.ok THEN PFail
         ELSE LET c == SkipWs(t, key.pos) IN
              IF c > Len(t) \/ t[c] # CO THEN PFail
              ELSE LET v == ParseValue(t, c + 1) IN
                   IF ~v.ok THEN PFail
                   ELSE LET e == SkipWs(t, v.pos)
                            items2 == DictSet(items, key.val.s, v.val)
                        IN IF e > Len(t) THEN PFail
                           ELSE IF t[e] = RB THEN POk(JObj(items2), e + 1)
                           ELSE IF t[e] = CM
                                THEN ParseMembers(t, SkipWs(t, e + 1), items2)
                           ELSE PFail

\* json decoder: value { , value } "]"
ParseElements(t, i, items) ==
    LET v == ParseValue(t, i) IN
    IF ~v.ok THEN PFail
    ELSE LET e == SkipWs(t, v.pos)
             items2 == Append(items, v.val)
         IN IF e > Len(t) THEN PFail
            ELSE IF t[e] = RS THEN POk(JArr(items2), e + 1)
            ELSE IF t[e] = CM THEN ParseElements(t, e + 1, items2)
            ELSE PFail

\* json.loads(t): ok is FALSE where the call raises (no value, or extra
\* data after the value).
json_loads(t) ==
    LET r == ParseValue(t, 1) IN
    IF r.ok /\ SkipWs(t, r.pos) > Len(t) THEN POk(r.val, r.pos) ELSE PFail

\* ---------------------------------------------------------------------
\* llm_json
\* ---------------------------------------------------------------------
\* An outcome of ollama.chat: the call raises, or returns the content text.
Raised == [raised |-> TRUE, text |-> <<>>]
Returned(t) == [raised |-> FALSE, text |-> t]
\* fix while the repair completion has not been requested.
NotCalled == [raised |-> FALSE, text |-> <<"<not called>">>]

\* What llm_json hands back: it raised, or returned val; repairs counts
\* the repair completions it requested.
LlmRaise == [raised |-> TRUE, val |-> JNull, repairs |-> 0]
LlmReturn(v, n) == [raised |-> FALSE, val |-> v, repairs |-> n]

\* {"action": "final", "answer": txt}
FinalDict(txt) ==
    JObj(<<JPair(<<"action">>, JStr(<<"final">>)), JPair(<<"answer">>, JStr(txt))>>)

\* txt.startswith("{")
StartsWithBrace(txt) == txt # <<>> /\ txt[1] = LB

\* "action" in txt
ContainsAction(txt) == \E i \in 1..Len(txt) : txt[i] = "action"

\* txt.count("{")
CountBrace(txt) == Cardinality({i \in 1..Len(txt) : txt[i] = LB})

\* txt.find("{")
FindBrace(txt) == CHOOSE i \in 1..Len(txt) : txt[i] = LB /\ \A j \in 1..(i - 1) : txt[j] # LB

\* The for loop over range(start, len(txt)): the index where brace_count
\* first returns to 0, or 0 when the loop runs out.
RECURSIVE BraceScan(_, _, _)
BraceScan(txt, i, brace_count) ==
    IF i > Len(txt) THEN 0
    ELSE IF txt[i] = LB THEN BraceScan(txt, i + 1, brace_count + 1)
    ELSE IF txt[i] = RB
         THEN IF brace_count - 1 = 0 THEN i
              ELSE BraceScan(txt, i + 1, brace_count - 1)
    ELSE BraceScan(txt, i + 1, brace_count)

\* The inner try of the extraction: json.loads of the first balanced span;
\* ok is FALSE when the loop finds no span or json.loads raises.
FirstObject(txt) ==
    LET start == FindBrace(txt)
        end == BraceScan(txt, start, 0)
    IN IF end = 0 THEN PFail ELSE json_loads(SubSeq(txt, start, end))

\* llm_json up to the repair request: done with the value returned, or not
\* done when control reaches the second chat call.
Decode(txt) ==
    LET direct == json_loads(txt) IN
    IF direct.ok THEN [done |-> TRUE, val |-> direct.val]
    ELSE IF ~StartsWithBrace(txt) /\ ~ContainsAction(txt)
         THEN [done |-> TRUE, val |-> FinalDict(txt)]
    ELSE IF CountBrace(txt) > 1 /\ FirstObject(txt).ok
         THEN [done |-> TRUE, val |-> FirstObject(txt).val]
    ELSE [done |-> FALSE, val |-> JNull]

\* The repair try: the second chat call's outcome decoded, or the last
\* resort when the call or its decoding raises.
Repair(txt, fixed) ==
    IF fixed.raised THEN FinalDict(txt)
    ELSE LET d == json_loads(Strip(fixed.text)) IN
         IF d.ok THEN d.val ELSE FinalDict(txt)

\* llm_json with the first chat call inside the repair try: its failure
\* ends in the last resort instead of propagating.
llm_jsonSwallow(first, fixed) ==
    IF first.raised THEN LlmReturn(FinalDict(<<>>), 0)
    ELSE LET txt == Strip(first.text)
             d == Decode(txt)
         IN IF d.done THEN LlmReturn(d.val, 0)
            ELSE LlmReturn(Repair(txt, fixed), 1)

\* llm_json(messages) for the outcomes first and fixed of its chat calls.
llm_json(first, fixed) ==
    IF first.raised THEN LlmRaise
    ELSE LET txt == Strip(first.text)
             d == Decode(txt)
         IN IF d.done THEN LlmReturn(d.val, 0)
            ELSE LlmReturn(Repair(txt, fixed), 1)

\* ---------------------------------------------------------------------
\* Inputs: the texts the completer returns, the lines the user types, the
\* results the tool server gives.
\* ---------------------------------------------------------------------
\* Bounds of the exploration.
MaxFaults == 2      \* recovered tool faults (unknown tool, failed call) per session
MaxStart == 3       \* a further turn starts while the history is at most this long

\* The JSON text of a str: quotes around it, quote and backslash escaped.
RECURSIVE Escape(_)
Escape(s) ==
    IF s = <<>> THEN <<>>
    ELSE (IF Head(s) \in {Q, BS} THEN <<BS, Head(s)>> ELSE <<Head(s)>>) \o Escape(Tail(s))

Lit(s) == <<Q>> \o Escape(s) \o <<Q>>

\* {"action":"final","answer":X}
FinalText(X) ==
    <<LB>> \o Lit(<<"action">>) \o <<CO>> \o Lit(<<"final">>) \o <<CM>>
           \o Lit(<<"answer">>) \o <<CO>> \o Lit(X) \o <<RB>>

\* {"action":name,"args":{}}
ToolText(name) ==
    <<LB>> \o Lit(<<"action">>) \o <<CO>> \o Lit(name) \o <<CM>>
           \o Lit(<<"args">>) \o <<CO, LB, RB, RB>>

\* The strings X of final answers.
AnswerStrings ==
    { <<"A">>, <<>>, <<"A", SP, "B">>, <<SP, "A", SP>>, <<RB>>, <<LB>>,
      <<Q>>, <<BS>>, <<"action">>, <<LB, "A", RB>> }

\* Texts that are one JSON object {"action":"final","answer":X}.
DirectFinalTexts == { FinalText(X) : X \in AnswerStrings }

\* Texts that are a JSON value but not an object.
ScalarTexts == { <<"42">>, <<"null">>, <<LS, "1", CM, SP, "2", RS>>, Lit(<<"Hello">>) }

\* Texts that are not JSON, with no leading brace and no `action`.
PlainTexts == { <<"Hello", CM, SP, "here", SP, "is", SP, "your", SP, "answer.">>, <<>> }

\* A valid action object immediately followed by a second object.
TwoObjectTexts ==
    { FinalText(X) \o FinalText(<<"B">>) : X \in {<<"A">>, <<RB>>, <<LB>>, <<LB, "A", RB>>} }
    \cup { ToolText(<<"random_joke">>) \o FinalText(<<"B">>) }

\* A valid action object followed by commentary.
TrailingTexts ==
    { FinalText(<<"A">>) \o <<SP, "Hope", SP, "that", SP, "helps">>,
      FinalText(<<"A">>) \o <<SP, "see", SP, LB, "A", RB>>,
      <<"Sure", CO, SP>> \o FinalText(<<"A">>),
      <<"Sure", CO, SP>> \o FinalText(<<"A">>) \o FinalText(<<"B">>) }

\* Objects of other shapes, and broken JSON.
OddTexts ==
    { <<LB>> \o Lit(<<"answer">>) \o <<CO>> \o Lit(<<"A">>) \o <<RB>>,
      <<LB>> \o Lit(<<"action">>) \o <<CO>> \o Lit(<<"final">>) \o <<RB>>,
      <<LB>> \o Lit(<<"action">>) \o <<CO>> \o Lit(<<"final">>) \o <<CM>>
             \o Lit(<<"answer">>) \o <<CO, "42", RB>>,
      <<LB>> \o Lit(<<"action">>) \o <<CO, LS, "1", RS, RB>>,
      <<LB>> \o Lit(<<"action">>) \o <<CO>> \o Lit(<<"random_joke">>) \o <<CM>>
             \o Lit(<<"args">>) \o <<CO, "42", RB>>,
      <<LB>> \o Lit(<<"action">>) \o <<CO>> \o Lit(<<"final">>),
      <<"my", SP, "action", SP, "is", SP, "final">>,
      <<"action", CO, SP, "random_joke">>,
      <<LB>> \o Lit(<<"action">>) \o <<CO>> \o Lit(<<"final">>) \o <<CM, RB>>,
      <<SP>> \o FinalText(<<"A">>) \o <<SP>>,
      FinalText(<<"A">>) \o <<RB>> }

ToolTexts == { ToolText(<<"random_joke">>), ToolText(<<"nope">>) }

\* Every text the parser is tried on.
AllTexts ==
    DirectFinalTexts \cup ScalarTexts \cup PlainTexts \cup TwoObjectTexts
    \cup TrailingTexts \cup OddTexts \cup ToolTexts

\* Outcomes of the repair completion.
AllFixes ==
    {Raised} \cup { Returned(t) : t \in
        { FinalText(<<"B">>), <<SP>> \o FinalText(<<"B">>), <<"42">>, <<"null">>,
          <<"sorry">>, <<>>, ToolText(<<"nope">>), Lit(<<"B">>),
          <<LB>> \o Lit(<<"answer">>) \o <<CO>> \o Lit(<<"B">>) \o <<RB>> } }

\* The completer's outcomes in a session: few enough for whole turns.
LoopFirsts ==
    {Raised} \cup { Returned(t) : t \in
        { FinalText(<<"A">>), ToolText(<<"random_joke">>), ToolText(<<"nope">>),
          <<"42">>, <<"Hello">>,
          <<LB>> \o Lit(<<"action">>) \o <<CO>> \o Lit(<<"final">>),
          <<LB>> \o Lit(<<"action">>) \o <<CO>> \o Lit(<<"final">>) \o <<RB>>,
          <<LB>> \o Lit(<<"action">>) \o <<CO, LS, "1", RS, RB>> } }

LoopFixes == { Raised, Returned(FinalText(<<"B">>)), Returned(<<"null">>) }

\* llm_json on the outcomes of a session, computed once.
LoopResults ==
    [first \in LoopFirsts |-> [fixed \in LoopFixes \cup {NotCalled} |-> llm_json(first, fixed)]]

\* The outcomes whose text reaches the repair completion.
LoopNeedsRepair == { first \in LoopFirsts : ~first.raised /\ ~Decode(Strip(first.text)).done }

\* The lines input() returns.
UserLines == { <<"hi">>, <<>>, <<SP>>, <<"EXIT">>, <<SP, "quit">> }

\* str.lower()
LowerAtom(a) == IF a = "EXIT" THEN "exit" ELSE a
Lower(t) == [i \in 1..Len(t) |-> LowerAtom(t[i])]

\* What session.call_tool does: raises with a message, or returns a result
\* with an error flag and a list of text contents.
ToolRaise == [raised |-> TRUE, isError |-> FALSE, content |-> <<>>, msg |-> <<"timeout">>]
ToolOk == [raised |-> FALSE, isError |-> FALSE, content |-> << <<"Knock", SP, "knock">> >>, msg |-> <<>>]
ToolError == [raised |-> FALSE, isError |-> TRUE, content |-> << <<"boom">> >>, msg |-> <<>>]
ToolEmpty == [raised |-> FALSE, isError |-> FALSE, content |-> <<>>, msg |-> <<>>]
ToolResults == { ToolOk, ToolError, ToolEmpty, ToolRaise }
NoResult == [raised |-> FALSE, isError |-> FALSE, content |-> <<>>, msg |-> <<"<not called>">>]

\* result.model_dump_json()
model_dump_json(res) ==
    <<LB>> \o Lit(<<"content">>) \o <<CO, LS, RS, CM>> \o Lit(<<"isError">>)
           \o <<CO, IF res.isError THEN "true" ELSE "false", RB>>

\* The tool names the server lists.
Listings == { <<"random_joke", "book_recs">>, <<"random_joke", "final", "random_joke">> }

\* ---------------------------------------------------------------------
\* main
\* ---------------------------------------------------------------------
\* range(6)
MaxIterations == 6

VARIABLES
    pc,          \* where main is: "stdio", "session", "initialize", "list_tools",
                 \* "input", "llm", "decide", "closed", "crashed"
    conns,       \* the contexts entered on exit_stack and not yet closed
    tools,       \* the names of the tools the server listed, in order
    tool_index,  \* the keys of tool_index
    history,     \* the list history
    iteration,   \* the for loop's variable
    resp,        \* outcome of the first chat call of the last llm_json
    fix,         \* outcome of its repair chat call, NotCalled if none
    repairs,     \* repair completions requested by the last llm_json
    decision,    \* the value llm_json returned
    result,      \* what the last session.call_tool did, NoResult if none
    toolCalls,   \* session.call_tool calls made in the current turn
    outcome,     \* how the last turn ended: "none", "final", "exhausted", "aborted"
    exc,         \* the exception that left main, "none" if none
    turnStart,   \* len(history) when the current turn began
    nominal,     \* every iteration of the turn so far was a successful catalog tool call
    faults,      \* unknown tools and failed tool calls so far in the session
    shown,       \* what the last step printed: "none", "Agent", "LLMError",
                 \* "UnknownTool", "ToolFailed", "Connected"
    promptLen,   \* len(history) when it was last passed to llm_json
    turns        \* user messages appended so far

vars == <<pc, conns, tools, tool_index, history, iteration, resp, fix, repairs,
          decision, result, toolCalls, outcome, exc, turnStart, nominal, faults,
          shown, promptLen, turns>>

\* Message with a tool result filed under a role of its own.
MessageToolRole(role, fmt, name, body) ==
    [role |-> IF fmt = "tool" THEN "tool" ELSE role, fmt |-> fmt, name |-> name, body |-> body]

\* A message {"role": role, "content": ...}; the content is kept by the
\* f-string that built it: fmt "plain" is body itself, "unknown" is
\* "(unknown tool {name})", "tool" is "[tool:{name}] {body}", "error" is
\* "[error] Tool call failed: {body}".
Message(role, fmt, name, body) ==
    [role |-> role, fmt |-> fmt, name |-> name, body |-> body]

\* history.append left out.
HistoryDrop(h, message) == h

\* history.append writing over the last entry once the list has a tail.
HistoryOverwrite(h, message) ==
    IF Len(h) > 2 THEN [h EXCEPT ![Len(h)] = message] ELSE Append(h, message)

\* history.append(message)
HistoryAppend(h, message) == Append(h, message)

\* SYSTEM + "\n\nAvailable tools:\n" + tool_desc
system_with_tools(listed) == JStr(<<"SYSTEM">> \o listed)

\* {t.name: t for t in tools}: the keys
Keys(listed) == { listed[i] : i \in 1..Len(listed) }

\* main before its first await: exit_stack is empty, nothing is built.
Init ==
    /\ pc = "stdio"
    /\ conns = {}
    /\ tools = <<>>
    /\ tool_index = {}
    /\ history = <<>>
    /\ shown = "none"
    /\ promptLen = 0
    /\ turns = 0
    /\ iteration = 0
    /\ resp = NotCalled
    /\ fix = NotCalled
    /\ repairs = 0
    /\ decision = JNull
    /\ result = NoResult
    /\ toolCalls = 0
    /\ outcome = "none"
    /\ exc = "none"
    /\ turnStart = 0
    /\ nominal = FALSE
    /\ faults = 0

\* The comparison against the wrong spelling of the reserved name.
IsFinalCaseSlip(d) == DictGet(d, <<"action">>, JNull) = JStr(<<"Final">>)

\* A final answer only when the answer key is present.
IsFinalNeedsAnswer(d) ==
    /\ DictGet(d, <<"action">>, JNull) = JStr(<<"final">>)
    /\ DictGet(d, <<"answer">>, JNull) # JNull

\* decision.get("action") == "final"
IsFinal(d) == DictGet(d, <<"action">>, JNull) = JStr(<<"final">>)

\* tname is hashable: a dict lookup with a list or a dict as key raises.
Hashable(v) == v.t \notin {"arr", "obj"}

\* The membership test dropped: any str counts as a listed tool.
InIndexAny(v, index) == v.t = "str"

\* tname in tool_index
InIndex(v, index) == v.t = "str" /\ Len(v.s) = 1 /\ v.s[1] \in index

\* The decision names a tool of the catalog / a tool missing from it.
CallsTool(d, index) ==
    d.t = "obj" /\ ~IsFinal(d) /\ InIndex(DictGet(d, <<"action">>, JNull), index)
UnknownTool(d, index) ==
    /\ d.t = "obj" /\ ~IsFinal(d)
    /\ Hashable(DictGet(d, <<"action">>, JNull))
    /\ ~InIndex(DictGet(d, <<"action">>, JNull), index)

\* The first chat call's text needs the repair completion.
NeedsRepair(first) == ~first.raised /\ ~Decode(Strip(first.text)).done

\* while True: user = input().strip(); exit on an empty line, exit or quit;
\* otherwise the user message is appended and the for loop starts.
ReadInput ==
    /\ pc = "input"
    /\ \E line \in UserLines :
          LET user == Strip(line) IN
          IF user = <<>> \/ Lower(user) \in { <<"exit">>, <<"quit">> }
          THEN \* break, then finally: exit_stack.aclose()
               /\ pc' = "closed"
               /\ conns' = {}
               /\ UNCHANGED <<history, iteration, toolCalls, outcome, turnStart, nominal, turns>>
          ELSE /\ Len(history) <= MaxStart
               /\ history' = HistoryAppend(history, Message("user", "plain", JNull, JStr(user)))
               /\ turnStart' = Len(history)
               /\ turns' = turns + 1
               /\ iteration' = 0
               /\ toolCalls' = 0
               /\ outcome' = "none"
               /\ nominal' = TRUE
               /\ pc' = "llm"
               /\ UNCHANGED conns
    /\ shown' = "none"
    /\ UNCHANGED <<tools, tool_index, resp, fix, repairs, decision, result, exc, faults, promptLen>>

\* input() at end of input: EOFError leaves the while loop through the
\* finally, which closes exit_stack, and then leaves main.
ReadEOF ==
    /\ pc = "input"
    /\ pc' = "crashed"
    /\ exc' = "EOFError"
    /\ conns' = {}
    /\ shown' = "none"
    /\ UNCHANGED <<tools, tool_index, history, iteration, resp, fix, repairs, decision,
                   result, toolCalls, outcome, turnStart, nominal, faults, promptLen, turns>>

\* decision = llm_json(history) inside the try of the for loop: an
\* exception is printed and breaks out of the for loop.
LlmJsonStep(first, fixed, out) ==
    /\ pc = "llm"
    /\ resp' = first
    /\ fix' = fixed
    /\ repairs' = out.repairs
    /\ promptLen' = Len(history)
    /\ IF out.raised
       THEN /\ pc' = "input"
            /\ outcome' = "aborted"
            /\ shown' = "LLMError"
            /\ nominal' = FALSE
            /\ UNCHANGED decision
       ELSE /\ pc' = "decide"
            /\ decision' = out.val
            /\ shown' = "none"
            /\ nominal' = (nominal /\ CallsTool(out.val, tool_index))
            /\ UNCHANGED outcome
    /\ UNCHANGED <<conns, tools, tool_index, history, iteration, result, toolCalls, exc,
                   turnStart, faults, turns>>

\* One call of llm_json in a session.
LlmJson ==
    \E first \in LoopFirsts :
       \E fixed \in (IF first \in LoopNeedsRepair THEN LoopFixes ELSE {NotCalled}) :
          LET out == LoopResults[first][fixed] IN
          /\ (\/ faults < MaxFaults
              \/ out.raised
              \/ ~UnknownTool(out.val, tool_index))
          /\ LlmJsonStep(first, fixed, out)

\* The for loop running one iteration too many.
ContinueOneMore ==
    IF iteration + 1 < MaxIterations + 1
    THEN /\ iteration' = iteration + 1
         /\ pc' = "llm"
         /\ UNCHANGED outcome
    ELSE /\ pc' = "input"
         /\ outcome' = "exhausted"
         /\ UNCHANGED iteration

\* The end of an iteration that did not break: the next one, or the end
\* of the for loop.
Continue ==
    IF iteration + 1 < MaxIterations
    THEN /\ iteration' = iteration + 1
         /\ pc' = "llm"
         /\ UNCHANGED outcome
    ELSE /\ pc' = "input"
         /\ outcome' = "exhausted"
         /\ UNCHANGED iteration

\* payload = result.content[0].text if result.content else result.model_dump_json()
Payload(res) ==
    IF res.content # <<>> THEN res.content[1] ELSE model_dump_json(res)

\* The rest of the iteration after llm_json returned.
Dispatch ==
    /\ pc = "decide"
    /\ LET tname == DictGet(decision, <<"action">>, JNull) IN
       IF decision.t # "obj"
       THEN \* decision.get raises AttributeError
            /\ pc' = "crashed"
            /\ exc' = "AttributeError"
            /\ conns' = {}
            /\ shown' = "none"
            /\ UNCHANGED <<history, iteration, result, toolCalls, outcome, nominal, faults>>
       ELSE IF IsFinal(decision)
       THEN /\ history' = HistoryAppend(history,
                   Message("assistant", "plain", JNull, DictGet(decision, <<"answer">>, JStr(<<>>))))
            /\ pc' = "input"
            /\ outcome' = "final"
            /\ shown' = "Agent"
            /\ UNCHANGED <<conns, iteration, result, toolCalls, exc, nominal, faults>>
       ELSE IF ~Hashable(tname)
       THEN \* tname not in tool_index raises TypeError
            /\ pc' = "crashed"
            /\ exc' = "TypeError"
            /\ conns' = {}
            /\ shown' = "none"
            /\ UNCHANGED <<history, iteration, result, toolCalls, outcome, nominal, faults>>
       ELSE IF ~InIndex(tname, tool_index)
       THEN /\ history' = HistoryAppend(history, Message("assistant", "unknown", tname, JNull))
            /\ faults' = faults + 1
            /\ shown' = "UnknownTool"
            /\ Continue
            /\ UNCHANGED <<conns, result, toolCalls, exc, nominal>>
       ELSE \E res \in (IF faults < MaxFaults THEN ToolResults ELSE {ToolOk}) :
            /\ result' = res
            /\ toolCalls' = toolCalls + 1
            /\ IF res.raised
               THEN history' = HistoryAppend(history,
                        Message("assistant", "error", JNull, JStr(res.msg)))
               ELSE history' = HistoryAppend(history,
                        Message("assistant", "tool", tname, JStr(Payload(res))))
            /\ faults' = IF res = ToolOk THEN faults ELSE faults + 1
            /\ nominal' = (nominal /\ res = ToolOk)
            /\ shown' = IF res.raised THEN "ToolFailed" ELSE "none"
            /\ Continue
            /\ UNCHANGED <<conns, exc>>
    /\ UNCHANGED <<tools, tool_index, resp, fix, repairs, decision, turnStart, promptLen, turns>>

\* A failure before the try of main: the exception leaves main with
\* exit_stack as it is.
StartupFailure ==
    /\ pc' = "crashed"
    /\ exc' = "StartupError"
    /\ UNCHANGED <<conns, tools, tool_index, history, shown>>

\* stdio = await exit_stack.enter_async_context(stdio_client(...))
EnterStdio ==
    /\ pc = "stdio"
    /\ \/ /\ pc' = "session"
          /\ conns' = conns \cup {"stdio"}
          /\ UNCHANGED <<exc, tools, tool_index, history, shown>>
       \/ StartupFailure
    /\ UNCHANGED <<iteration, resp, fix, repairs, decision, result, toolCalls, outcome,
                   turnStart, nominal, faults, promptLen, turns>>

\* session = await exit_stack.enter_async_context(ClientSession(r_in, w_out))
EnterSession ==
    /\ pc = "session"
    /\ \/ /\ pc' = "initialize"
          /\ conns' = conns \cup {"session"}
          /\ UNCHANGED <<exc, tools, tool_index, history, shown>>
       \/ StartupFailure
    /\ UNCHANGED <<iteration, resp, fix, repairs, decision, result, toolCalls, outcome,
                   turnStart, nominal, faults, promptLen, turns>>

\* await session.initialize()
Initialize ==
    /\ pc = "initialize"
    /\ \/ /\ pc' = "list_tools"
          /\ UNCHANGED <<exc, conns, tools, tool_index, history, shown>>
       \/ StartupFailure
    /\ UNCHANGED <<iteration, resp, fix, repairs, decision, result, toolCalls, outcome,
                   turnStart, nominal, faults, promptLen, turns>>

\* tools = (await session.list_tools()).tools, tool_index, the system
\* prompt and history = [system message]
ListTools ==
    /\ pc = "list_tools"
    /\ \/ \E listed \in Listings :
             /\ tools' = listed
             /\ tool_index' = Keys(listed)
             /\ history' = << Message("system", "plain", JNull, system_with_tools(listed)) >>
             /\ shown' = "Connected"
             /\ pc' = "input"
             /\ UNCHANGED <<exc, conns>>
       \/ StartupFailure
    /\ UNCHANGED <<iteration, resp, fix, repairs, decision, result, toolCalls, outcome,
                   turnStart, nominal, faults, promptLen, turns>>

Next ==
    \/ EnterStdio \/ EnterSession \/ Initialize \/ ListTools
    \/ ReadInput \/ ReadEOF \/ LlmJson \/ Dispatch

Spec == Init /\ [][Next]_vars

\* The parser alone: one call of llm_json on every text and every outcome
\* of the repair completion.
InitParse ==
    /\ pc = "llm"
    /\ conns = {"stdio", "session"}
    /\ \E listed \in Listings :
          /\ tools = listed
          /\ tool_index = Keys(listed)
          /\ history = << Message("system", "plain", JNull, system_with_tools(listed)),
                          Message("user", "plain", JNull, JStr(<<"hi">>)) >>
    /\ shown = "none"
    /\ promptLen = 0
    /\ turns = 1
    /\ iteration = 0
    /\ resp = NotCalled
    /\ fix = NotCalled
    /\ repairs = 0
    /\ decision = JNull
    /\ result = NoResult
    /\ toolCalls = 0
    /\ outcome = "none"
    /\ exc = "none"
    /\ turnStart = 1
    /\ nominal = TRUE
    /\ faults = 0

ParseAny ==
    \E first \in {Raised} \cup { Returned(t) : t \in AllTexts } :
       \E fixed \in (IF NeedsRepair(first) THEN AllFixes ELSE {NotCalled}) :
          LlmJsonStep(first, fixed, llm_json(first, fixed))

ParseNext == ParseAny

ParseSpec == InitParse /\ [][ParseNext]_vars

\* ---------------------------------------------------------------------
\* Properties
\* ---------------------------------------------------------------------
\* An Action: a ToolCall with a str name and a mapping of args, or a
\* FinalAnswer with a str text.
WellFormedAction(d) ==
    /\ d.t = "obj"
    /\ DictGet(d, <<"action">>, JNull).t = "str"
    /\ IF IsFinal(d)
       THEN DictGet(d, <<"answer">>, JStr(<<>>)).t = "str"
       ELSE DictGet(d, <<"args">>, JObj(<<>>)).t = "obj"

\* C1 (totality of parse): whatever text the first completion returned and
\* whatever the repair completion did, llm_json returns a well-formed Action.
C1_Totality == pc = "decide" => WellFormedAction(decision)

\* C2 (the loop never crashes on model output): no text of the completer
\* leads to an exception that leaves the turn loop and ends the session.
C2_NoCrashOnModelOutput == ~(pc = "crashed" /\ exc \in {"AttributeError", "TypeError"})

\* C3 (direct-decode fidelity): a text that is one JSON object
\* {"action":"final","answer":X}, X a JSON string, is returned as the final
\* answer X, unchanged, with no repair completion.
C3_DirectDecodeFidelity ==
    \A X \in AnswerStrings :
       (pc = "decide" /\ ~resp.raised /\ Strip(resp.text) = FinalText(X))
          => /\ IsFinal(decision)
             /\ DictGet(decision, <<"answer">>, JStr(<<>>)) = JStr(X)
             /\ decision = FinalDict(X)
             /\ repairs = 0

\* C3 witness: the answer with an escaped quote has been decoded.
C3_Witness ==
    pc = "decide" /\ resp = Returned(FinalText(<<Q>>)) /\ decision = FinalDict(<<Q>>)

\* C4 (plain-text wrapping): a text whose trimmed form neither begins with
\* a brace nor contains `action` is returned as the final answer that text,
\* with no repair completion.
C4_PlainTextWrapping ==
    (/\ pc = "decide"
     /\ ~resp.raised
     /\ ~StartsWithBrace(Strip(resp.text))
     /\ ~ContainsAction(Strip(resp.text)))
       => decision = FinalDict(Strip(resp.text)) /\ repairs = 0

\* C5 (first-object extraction): a valid action object immediately followed
\* by a second object is returned as the first object's action, with no
\* repair completion.
C5_FirstObjectExtraction ==
    \A X \in AnswerStrings :
       (pc = "decide" /\ resp = Returned(FinalText(X) \o FinalText(<<"B">>)))
          => decision = FinalDict(X) /\ repairs = 0

\* C6 (budget termination): a turn in which every completion was a call of
\* a catalog tool that succeeded ends exhausted after exactly MaxIterations
\* tool calls, the history grown by the user message and MaxIterations
\* tool-result messages and nothing else.
C6_BudgetTermination ==
    (pc = "input" /\ outcome # "none" /\ nominal)
       => /\ outcome = "exhausted"
          /\ toolCalls = MaxIterations
          /\ Len(history) = turnStart + 1 + MaxIterations
          /\ history[turnStart + 1].role = "user"
          /\ \A i \in (turnStart + 2)..Len(history) :
                /\ history[i].role = "assistant"
                /\ history[i].fmt = "tool"
                /\ history[i].body = JStr(Payload(ToolOk))

\* C6 witness: such a turn has ended.
C6_Witness == pc = "input" /\ outcome = "exhausted" /\ nominal /\ toolCalls = MaxIterations

\* C7 (append-only history): every step keeps the history it found as a
\* prefix of the history it leaves, and a call of llm_json, repair request
\* included, leaves the history as it was.
C7_AppendOnly ==
    [][ /\ Len(history') >= Len(history)
        /\ SubSeq(history', 1, Len(history)) = history
        /\ (pc = "llm" => history' = history) ]_vars

\* C7 witness: a later turn, after a repair completion, has appended.
C7_Witness ==
    /\ turnStart >= 2
    /\ repairs = 1
    /\ outcome = "final"
    /\ Len(history) = turnStart + 3

\* C8 (unknown-tool recovery): a tool call naming a tool outside the
\* catalog appends the one message "(unknown tool <name>)", calls no tool,
\* and goes on to the next iteration while budget remains.
C8_UnknownToolRecovery ==
    [][ (/\ pc = "decide"
         /\ decision.t = "obj"
         /\ DictGet(decision, <<"action">>, JNull).t = "str"
         /\ DictGet(decision, <<"action">>, JNull).s # <<"final">>
         /\ \A name \in tool_index : DictGet(decision, <<"action">>, JNull).s # <<name>>)
           => /\ history' = Append(history,
                     Message("assistant", "unknown", DictGet(decision, <<"action">>, JNull), JNull))
              /\ toolCalls' = toolCalls
              /\ result' = result
              /\ exc' = "none"
              /\ IF iteration + 1 < MaxIterations
                 THEN pc' = "llm" /\ iteration' = iteration + 1 /\ outcome' = "none"
                 ELSE pc' = "input" /\ outcome' = "exhausted" ]_vars

\* C8 witness: after the unknown-tool note the next iteration is under way.
C8_Witness ==
    /\ pc = "llm"
    /\ iteration >= 1
    /\ history[Len(history)].fmt = "unknown"
    /\ history[Len(history)].name = JStr(<<"nope">>)

\* C9 (completion failure): when the completion of an iteration raises, the
\* turn ends at once with the history as it was and no tool called, and
\* main is back at reading input.
C9_CompletionFailure ==
    [][ (pc = "llm" /\ resp'.raised)
           => /\ history' = history
              /\ toolCalls' = toolCalls
              /\ result' = result
              /\ pc' = "input"
              /\ outcome' = "aborted"
              /\ exc' = "none" ]_vars

\* C9 witness: a turn aborted after an earlier iteration had appended.
C9_Witness ==
    /\ pc = "input"
    /\ outcome = "aborted"
    /\ resp.raised
    /\ Len(history) > turnStart + 1

\* C10 (tool failure recovery): a tool call that raises or returns an error
\* result appends the one message "[error] Tool call failed: ..." and the
\* loop goes on.
C10_ToolFailureRecovered ==
    [][ (/\ pc = "decide"
         /\ toolCalls' = toolCalls + 1
         /\ (result'.raised \/ result'.isError))
           => /\ Len(history') = Len(history) + 1
              /\ history'[Len(history')].role = "assistant"
              /\ history'[Len(history')].fmt = "error"
              /\ pc' \in {"llm", "input"}
              /\ exc' = "none" ]_vars

\* Two descriptors of the listing share a name.
HasDuplicate(listed) ==
    \E i, j \in 1..Len(listed) : i < j /\ listed[i] = listed[j]

\* C11 (catalog uniqueness): a listing in which two tools share a name
\* stops the session before the turn loop.
C11_CatalogUniqueness ==
    HasDuplicate(tools) => pc \notin {"input", "llm", "decide", "closed"}

\* C12 (budget exhaustion surfaced): a turn that ends exhausted ends with a
\* notice of its own, which is neither silence, nor a note of one
\* iteration, nor the answer of a successful turn, nor the error of a
\* failed one.
C12_ExhaustionSurfaced ==
    (pc = "input" /\ outcome = "exhausted")
       => shown \notin {"none", "UnknownTool", "ToolFailed", "Agent", "LLMError"}

\* C13 (final answer is terminal): a decision whose action is "final"
\* appends the one assistant message holding the answer and ends the turn;
\* while the turn stands ended as final there is no completion, no tool
\* call and no further append, whatever budget remains.
C13_FinalIsTerminal ==
    /\ [][ (/\ pc = "decide"
            /\ decision.t = "obj"
            /\ DictGet(decision, <<"action">>, JNull) = JStr(<<"final">>))
              => /\ history' = Append(history,
                        Message("assistant", "plain", JNull,
                                DictGet(decision, <<"answer">>, JStr(<<>>))))
                 /\ pc' = "input"
                 /\ outcome' = "final"
                 /\ toolCalls' = toolCalls
                 /\ result' = result ]_vars
    /\ [](outcome = "final"
            => /\ pc \notin {"llm", "decide"}
               /\ Len(history) = turnStart + iteration + 2)

\* C13 witness: a turn ended by a final answer in its second iteration.
C13_Witness ==
    /\ pc = "input"
    /\ outcome = "final"
    /\ iteration = 1
    /\ history[Len(history)].body = JStr(<<"A">>)

\* C14 (trailing commentary): a valid action object followed by commentary
\* is returned as that object's action, with no repair completion.
C14_TrailingCommentary ==
    \A t \in TrailingTexts :
       (/\ pc = "decide"
        /\ resp = Returned(t)
        /\ SubSeq(t, 1, Len(FinalText(<<"A">>))) = FinalText(<<"A">>))
          => decision = FinalDict(<<"A">>) /\ repairs = 0

\* C15 (connections released): however main ends, the contexts entered on
\* exit_stack have been closed.
C15_ConnectionsReleased == pc \in {"closed", "crashed"} => conns = {}

\* C16 (one append per iteration): an iteration whose completion did not
\* fail appends exactly one message, and a turn appends the user message
\* and at most MaxIterations more.
C16_OneAppendPerIteration ==
    /\ [][ pc = "decide" => Len(history') = Len(history) + 1 ]_vars
    /\ [](Len(history) <= turnStart + 1 + MaxIterations)

\* C17 (sequential iterations): the completion and parse of an iteration
\* come before its tool call and its append, an iteration makes at most one
\* tool call, and the completion of the next iteration is given the history
\* with every earlier iteration's message at its end.
C17_Sequential ==
    /\ [][ /\ (pc = "llm" => history' = history /\ toolCalls' = toolCalls)
           /\ (pc = "decide" => toolCalls' \in {toolCalls, toolCalls + 1})
           /\ ((pc = "decide" /\ pc' = "llm")
                 => /\ iteration' = iteration + 1
                    /\ Len(history') = Len(history) + 1) ]_vars
    /\ [](pc = "decide"
            => /\ promptLen = Len(history)
               /\ promptLen = turnStart + 1 + iteration)

\* C17 witness: the third completion of a turn saw the two earlier messages.
C17_Witness ==
    pc = "decide" /\ iteration = 2 /\ promptLen = turnStart + 3 /\ toolCalls = 1

\* C18 (every turn terminates): a turn stays within MaxIterations
\* iterations and tool calls and one repair per parse, and once it is over
\* it has ended in a final answer, in budget exhaustion or in a completion
\* failure.
C18_TurnTerminates ==
    /\ iteration < MaxIterations
    /\ toolCalls <= MaxIterations
    /\ repairs <= 1
    /\ (turns > 0 /\ pc \notin {"llm", "decide"})
          => outcome \in {"final", "exhausted", "aborted"}

\* C19 (dispatch guarded by the catalog): session.call_tool is called only
\* with a key of tool_index other than "final", and an action "final" ends
\* the turn as a final answer even with a tool named final in the catalog.
C19_DispatchGuarded ==
    [][ /\ (pc = "decide" /\ toolCalls' = toolCalls + 1)
              => /\ decision.t = "obj"
                 /\ DictGet(decision, <<"action">>, JNull).t = "str"
                 /\ DictGet(decision, <<"action">>, JNull).s # <<"final">>
                 /\ \E name \in tool_index :
                       DictGet(decision, <<"action">>, JNull).s = <<name>>
        /\ (/\ pc = "decide"
            /\ decision.t = "obj"
            /\ DictGet(decision, <<"action">>, JNull) = JStr(<<"final">>))
              => /\ toolCalls' = toolCalls
                 /\ pc' = "input"
                 /\ outcome' = "final" ]_vars

\* C19 witness: with a tool named final in the catalog, an action "final"
\* without an answer has ended a turn that had called a tool.
C19_Witness ==
    /\ "final" \in tool_index
    /\ pc = "input"
    /\ outcome = "final"
    /\ toolCalls = 1
    /\ DictGet(decision, <<"answer">>, JNull) = JNull

\* C20 (role structure): once the history is built its first message is
\* the only system message, every later one is a user or an assistant
\* message, each turn appended exactly one user message, and that message
\* is the first of its turn.
C20_RoleStructure ==
    pc \in {"input", "llm", "decide", "closed"}
       => /\ Len(history) >= 1
          /\ history[1].role = "system"
          /\ \A i \in 2..Len(history) : history[i].role \in {"user", "assistant"}
          /\ Cardinality({i \in 1..Len(history) : history[i].role = "user"}) = turns
          /\ turns = 0 => Len(history) = 1
          /\ turns > 0
                => /\ history[turnStart + 1].role = "user"
                   /\ \A i \in (turnStart + 2)..Len(history) : history[i].role = "assistant"

\* C20 witness: a second turn has appended after a repair completion.
C20_Witness ==
    /\ turns = 2
    /\ repairs = 1
    /\ pc = "input"
    /\ Len(history) >= turnStart + 3

====
